---------------------------- MODULE Spec2Model ----------------------------
(***************************************************************************)
(* Model of the lucky-draw application (duthaho/lottery): the draw         *)
(* orchestration of DrawManager (src/js/i18n.js, draw.js section), the      *)
(* PrizeManager queue and cursor (src/js/app.js, prizes.js section), the    *)
(* WinnerManager ledger (src/unnamed/part_002), the SlotMachine pool and    *)
(* its animation-frame loop and reel timers (src/js/slotmachine.js), and    *)
(* the wiring of LotteryApp and AdminPanel (src/js/app.js, src/js/admin.js).*)
(*                                                                         *)
(* Conventions.                                                            *)
(*  - currentIndex is 0-based as in the code; TLA+ sequences are 1-based,  *)
(*    so queue[currentIndex + 1] is the code's prizeQueue[currentIndex].   *)
(*  - JavaScript null is Null (participants / pending winner), NoPrize     *)
(*    (queue entries) and the empty sequence (storage.load() === null).    *)
(*  - A participant is {id, name}; a tier is {id, name, quantity} (name_vi *)
(*    is carried like name and left out); a ledger entry is the            *)
(*    participant's fields plus prize {id, name, instance, quantity}; the  *)
(*    timestamp (Date.now()) is read by nothing in the core and left out.  *)
(*  - The page's DOM elements (reels container, action buttons, winner     *)
(*    name) exist, as in the shipped page.                                 *)
(*  - Participant and tier lists have pairwise distinct ids (spec.md §3),   *)
(*    except the tier lists of SpecPM, which are arbitrary.                *)
(*  - lastCall, notified and rt are history variables: no handler reads    *)
(*    them.                                                                *)
(***************************************************************************)
EXTENDS Integers, Sequences, FiniteSets, TLC

\* ------------------------------------------------------------------ bounds
\* Number of participants in the list loaded at start-up.
NumParticipants == 2
\* Most animation-frame loops and finishSpin timer chains outstanding at
\* once (a chain lasts 1.3 s; the bound caps how many overlap).
MaxPending == 2
\* Tier lists fed to PrizeManager in isolation (SpecPM).
MaxTierId == 3
MaxQty == 2
MaxTiers == 3

\* -------------------------------------------------------------- data model
\* Names are numbers derived from the id (100 + id, 200 + id); 0 names null.
Null == [id |-> 0, name |-> 0]
NoPrize == [id |-> 0, name |-> 0, quantity |-> 0, instance |-> 0]

Participant(i) == [id |-> i, name |-> 100 + i]
Tier(i, q) == [id |-> i, name |-> 200 + i, quantity |-> q]

\* data/participants.json as fetched by loadData.
InitialParticipants == [i \in 1..NumParticipants |-> Participant(i)]
\* data/prizes.json as fetched by loadData (the scenario of spec.md §8).
InitialPrizes == <<Tier(1, 1), Tier(2, 2)>>

\* Lists an admin may import (validated by AdminPanel.handleImport).
ImportParticipantLists ==
    { Tail(InitialParticipants) }
ImportPrizeLists == { <<Tier(2, 1), Tier(1, 1)>> }

STATE_READY == "ready"
STATE_SPINNING == "spinning"
STATE_STOPPED == "stopped"
STATE_COMPLETE == "complete"

\* ------------------------------------------------------------ PrizeManager
\* Variant: the comparator reversed (a.id - b.id), ascending.
InsertDescAscending(s, x) ==
    LET k == Cardinality({i \in 1..Len(s) : s[i].id <= x.id})
    IN  SubSeq(s, 1, k) \o <<x>> \o SubSeq(s, k + 1, Len(s))

\* [...prizes].sort((a, b) => b.id - a.id): stable, by id descending.
InsertDesc(s, x) ==
    LET k == Cardinality({i \in 1..Len(s) : s[i].id >= x.id})
    IN  SubSeq(s, 1, k) \o <<x>> \o SubSeq(s, k + 1, Len(s))

RECURSIVE SortDesc(_)
SortDesc(prizes) ==
    IF prizes = <<>> THEN <<>>
    ELSE InsertDesc(SortDesc(SubSeq(prizes, 1, Len(prizes) - 1)), prizes[Len(prizes)])

\* The inner loop of buildPrizeQueue: quantity entries, instance = i + 1.
ExpandPrize(prize) ==
    [i \in 1..prize.quantity |->
        [id |-> prize.id, name |-> prize.name,
         quantity |-> prize.quantity, instance |-> i]]

RECURSIVE ExpandAll(_)
ExpandAll(sorted) ==
    IF sorted = <<>> THEN <<>>
    ELSE ExpandPrize(Head(sorted)) \o ExpandAll(Tail(sorted))

\* Variant: the queue built without the sort, in the order of the list.
buildPrizeQueueUnsorted(prizes) == ExpandAll(prizes)

buildPrizeQueue(prizes) == ExpandAll(SortDesc(prizes))

getCurrentPrize(queue, idx) ==
    IF idx >= Len(queue) THEN NoPrize ELSE queue[idx + 1]

\* Variant: the increment without its test against the queue length.
advanceToNextPrizeUnguarded(queue, idx) == idx + 1

advanceToNextPrize(queue, idx) ==
    IF idx < Len(queue) THEN idx + 1 ELSE idx

undoLastPrize(idx) ==
    IF idx > 0 THEN idx - 1 ELSE idx

getTotalPrizes(queue) == Len(queue)

\* A JSON number of a snapshot is held in halves (the number times two), so
\* that a snapshot edited by hand can carry a fraction.
JsonNumber(i) == 2 * i

\* Math.floor on a number held in halves.
MathFloor(halves) == halves \div 2

\* Variant: the bounds check without Math.min, the lower bound only.
ClampIndexLowerOnly(x, queue) == IF x > 0 THEN x ELSE 0

\* PrizeManager.loadState's bounds check on a numeric currentIndex, after
\* Math.floor: Math.max(0, Math.min(x, prizeQueue.length)).
ClampIndex(x, queue) ==
    LET lo == IF x < Len(queue) THEN x ELSE Len(queue)
    IN  IF lo > 0 THEN lo ELSE 0

\* ----------------------------------------------------------- WinnerManager
addWinner(ws, participant, prize) ==
    Append(ws, [id |-> participant.id, name |-> participant.name,
                prize |-> [id |-> prize.id, name |-> prize.name,
                           instance |-> prize.instance,
                           quantity |-> prize.quantity]])

\* Variant: shift() in place of pop(), the oldest entry removed.
removeFirstWinner(ws) == SubSeq(ws, 2, Len(ws))

\* this.winners.pop(): the list that is left.
removeLastWinner(ws) == SubSeq(ws, 1, Len(ws) - 1)

\* What removeLastWinner returns, as the {id, name} its caller reads: the
\* entry popped, null on an empty ledger.
removedWinner(ws) ==
    IF ws = <<>> THEN Null
    ELSE [id |-> ws[Len(ws)].id, name |-> ws[Len(ws)].name]

\* findIndex(w => w.id === participantId): 0 when there is none.
WinnerIndexById(ws, participantId) ==
    LET hits == {i \in 1..Len(ws) : ws[i].id = participantId}
    IN  IF hits = {} THEN 0 ELSE CHOOSE i \in hits : \A j \in hits : i <= j

removeWinnerById(ws, participantId) ==
    LET k == WinnerIndexById(ws, participantId)
    IN  IF k = 0 THEN ws ELSE SubSeq(ws, 1, k - 1) \o SubSeq(ws, k + 1, Len(ws))

\* Variant: the filter w.prize === prizeId, an object against a number,
\* which no entry passes.
getWinnersByPrizeObject(ws, prizeId) ==
    SelectSeq(ws, LAMBDA w : FALSE)

\* this.winners.filter(w => w.prize.id === prizeId).
getWinnersByPrize(ws, prizeId) ==
    SelectSeq(ws, LAMBDA w : w.prize.id = prizeId)

\* ------------------------------------------------------------- SlotMachine
PoolIndexById(pool, id) ==
    LET hits == {i \in 1..Len(pool) : pool[i].id = id}
    IN  IF hits = {} THEN 0 ELSE CHOOSE i \in hits : \A j \in hits : i <= j

\* Variant: the filter dropped, the pool left as it is.
removeParticipantKeeps(pool, id) == pool

\* findIndex(p => p.id === id), then splice(index, 1).

removeParticipant(pool, id) ==
    LET k == PoolIndexById(pool, id)
    IN  IF k = 0 THEN pool ELSE SubSeq(pool, 1, k - 1) \o SubSeq(pool, k + 1, Len(pool))

\* Variant: the participant not put back, the pool left as it is.
addParticipantDropped(pool, participant) == pool

\* Variant: the push without the test for the id.
addParticipantPush(pool, participant) == Append(pool, participant)

\* SlotMachine.addParticipant: the pool it leaves.
addParticipant(pool, participant) ==
    IF \E i \in 1..Len(pool) : pool[i].id = participant.id
    THEN pool
    ELSE Append(pool, participant)

hasParticipants(pool) == Len(pool) > 0

\* ------------------------------------------------------- DrawManager (pure)
\* updateButtons: the only part of updateUI that writes non-display state.
updateButtons(st, ws, queue, pool) ==
    IF Len(ws) >= getTotalPrizes(queue) \/ ~hasParticipants(pool)
    THEN STATE_COMPLETE
    ELSE st

\* -------------------------------------------------------- LotteryApp (pure)
\* originalPrizes.find(p => p.id === prizeId): NoPrize when there is none.
FindPrize(prizes, prizeId) ==
    LET hits == {i \in 1..Len(prizes) : prizes[i].id = prizeId}
    IN  IF hits = {} THEN NoPrize
        ELSE LET k == CHOOSE i \in hits : \A j \in hits : i <= j
             IN  [id |-> prizes[k].id, name |-> prizes[k].name,
                  quantity |-> prizes[k].quantity, instance |-> 0]

\* queue.findIndex with the running count: the 0-based index of the n-th
\* entry of tier prizeId, -1 when there is none.
FindSlot(queue, prizeId, n) ==
    LET hits == {i \in 1..Len(queue) :
                    /\ queue[i].id = prizeId
                    /\ Cardinality({j \in 1..i : queue[j].id = prizeId}) = n}
    IN  IF hits = {} THEN -1 ELSE (CHOOSE i \in hits : TRUE) - 1

\* Variant: selectPrize without its test of the remaining instances, always
\* the first slot of the tier.
SelectPrizeIndexNoQuota(prizeId, queue, ws, origPrizes) ==
    IF FindPrize(origPrizes, prizeId) = NoPrize THEN -1
    ELSE FindSlot(queue, prizeId, 1)

\* selectPrize up to its index: -1 when it returns without moving the cursor.
SelectPrizeIndex(prizeId, queue, ws, origPrizes) ==
    LET prize == FindPrize(origPrizes, prizeId)
        awarded == Len(getWinnersByPrize(ws, prizeId))
    IN  IF prize = NoPrize THEN -1
        ELSE IF awarded >= prize.quantity THEN -1
        ELSE FindSlot(queue, prizeId, awarded + 1)

\* selectPrize: the cursor and the phase it leaves (drawManager.updateUI()
\* runs only when the slot was found).
selectPrize(prizeId, idx, st, queue, ws, origPrizes, pool) ==
    LET index == SelectPrizeIndex(prizeId, queue, ws, origPrizes)
    IN  IF index # -1
        THEN [idx |-> index, st |-> updateButtons(st, ws, queue, pool)]
        ELSE [idx |-> idx, st |-> st]

\* Variant: no auto-selection, cursor and phase left as they are.
autoSelectNextAvailablePrizeOff(idx, st, queue, ws, origPrizes, pool) ==
    [idx |-> idx, st |-> st]

\* autoSelectNextAvailablePrize: the cursor and the phase it leaves.
autoSelectNextAvailablePrize(idx, st, queue, ws, origPrizes, pool) ==
    LET currentPrize == getCurrentPrize(queue, idx)
        prize == FindPrize(origPrizes, currentPrize.id)
        sortedPrizes == SortDesc(origPrizes)
        open == {i \in 1..Len(sortedPrizes) :
                    Len(getWinnersByPrize(ws, sortedPrizes[i].id))
                        < sortedPrizes[i].quantity}
    IN  IF /\ currentPrize # NoPrize
           /\ prize # NoPrize
           /\ Len(getWinnersByPrize(ws, currentPrize.id)) < prize.quantity
        THEN [idx |-> idx, st |-> st]
        ELSE IF open = {} THEN [idx |-> idx, st |-> st]
        ELSE LET k == CHOOSE i \in open : \A j \in open : i <= j
             IN  selectPrize(sortedPrizes[k].id, idx, st, queue, ws, origPrizes, pool)

\* saveState: the snapshot handed to storage.save.
Snapshot(pool, pmPrizes, idx, ws, origParticipants, origPrizes) ==
    [participants |-> pool,
     prizes |-> [originalPrizes |-> pmPrizes, currentIndex |-> JsonNumber(idx)],
     winners |-> ws,
     originalParticipants |-> origParticipants,
     originalPrizes |-> origPrizes]

\* ------------------------------------------------------------------- state
VARIABLES
    originalParticipants,  \* LotteryApp.originalParticipants
    originalPrizes,        \* LotteryApp.originalPrizes
    adminParticipants,     \* AdminPanel.originalParticipants (used by reset)
    storage,               \* localStorage['lottery_state']: <<>> or <<snapshot>>
    pmOriginalPrizes,      \* PrizeManager.originalPrizes
    prizeQueue,            \* PrizeManager.prizeQueue
    currentIndex,          \* PrizeManager.currentIndex (0-based cursor)
    winners,               \* WinnerManager.winners (the ledger)
    participants,          \* SlotMachine.participants (the pool)
    isSpinning,            \* SlotMachine.isSpinning
    stopRequested,         \* SlotMachine.stopRequested
    smPendingWinner,       \* SlotMachine.pendingWinner
    rafLoops,              \* live checkStop loops, oldest first; TRUE = started
                           \*   before a later SlotMachine.reset()
    animValid,             \* animationId names the pending frame of the last loop
    finalQ,                \* finishSpin runs whose timers are pending, oldest
                           \*   first; TRUE = set before a later SlotMachine.reset()
    state,                 \* DrawManager.state
    pendingWinner,         \* DrawManager.pendingWinner
    lastCall,              \* history: the command or animator report handled last
    notified,              \* history: onStateChange invocations made by that handler
    rt                     \* round-trip monitor: off, or the ledger, pool and
                           \*   cursor at a mark and the draws committed since

appVars == <<originalParticipants, originalPrizes, adminParticipants, storage>>
pmVars == <<pmOriginalPrizes, prizeQueue, currentIndex>>
smVars == <<participants, isSpinning, stopRequested, smPendingWinner,
            rafLoops, animValid, finalQ>>
dmVars == <<state, pendingWinner>>
vars == <<appVars, pmVars, winners, smVars, dmVars, lastCall, notified, rt>>

\* done: the handler passed its guards and wrote state; reconfirm: this is a
\* confirmWinner call and the handler that ran just before was one too.
Call(op, arg, done) ==
    [op |-> op, arg |-> arg, done |-> done,
     reconfirm |-> (op = "confirmWinner" /\ lastCall.op = "confirmWinner")]

\* The round-trip monitor.  Marked in a READY state, it counts committed
\* confirms ("up"), then committed undos ("down"), and is "done" when as
\* many undos as confirms have run; any other committed command ends the
\* watch.  It never constrains the handlers.
RtOff == [mode |-> "off", n |-> 0, ledger |-> <<>>, pool |-> {}, cursor |-> 0]

RtNext(op, done) ==
    IF rt.mode = "off" \/ ~done THEN rt
    ELSE IF op \in {"startSpin", "stopSpin", "spinComplete", "staleSpinComplete"}
              /\ rt.mode = "up"
         THEN rt
    ELSE IF op = "confirmWinner" /\ rt.mode = "up"
         THEN [rt EXCEPT !.n = rt.n + 1]
    ELSE IF op = "undoLastDraw" /\ rt.mode \in {"up", "down"} /\ rt.n >= 1
         THEN [rt EXCEPT !.n = rt.n - 1,
                         !.mode = IF rt.n = 1 THEN "done" ELSE "down"]
    ELSE RtOff

Handled(op, arg, done) ==
    /\ lastCall' = Call(op, arg, done)
    /\ rt' = RtNext(op, done)

Outstanding == Len(rafLoops) + Len(finalQ)

\* LotteryApp.init on first load, given the list loadData leaves in
\* originalParticipants (the content of data/participants.json, or [] when
\* the response is not ok): nothing saved; cursor on the first slot; the
\* closing updateUI() sets the phase.
InitFrom(roster) ==
    /\ originalParticipants = roster
    /\ originalPrizes = InitialPrizes
    /\ adminParticipants = roster
    /\ storage = <<>>
    /\ pmOriginalPrizes = InitialPrizes
    /\ prizeQueue = buildPrizeQueue(InitialPrizes)
    /\ currentIndex = 0
    /\ winners = <<>>
    /\ participants = roster
    /\ isSpinning = FALSE
    /\ stopRequested = FALSE
    /\ smPendingWinner = Null
    /\ rafLoops = <<>>
    /\ animValid = FALSE
    /\ finalQ = <<>>
    /\ state = updateButtons(STATE_READY, <<>>, buildPrizeQueue(InitialPrizes), roster)
    /\ pendingWinner = Null
    /\ lastCall = [op |-> "init", arg |-> 0, done |-> TRUE, reconfirm |-> FALSE]
    /\ notified = 0
    /\ rt = RtOff

\* First load with data/participants.json as shipped.
Init == InitFrom(InitialParticipants)

\* ------------------------------------------------------------ SlotMachine
\* SlotMachine.reset: cancelAnimationFrame(animationId) removes the one
\* frame animationId names; reel and final timers already set are not
\* cleared.  Every loop and timer left belongs to a spin this call cancelled.
ResetLoops(loops, valid) ==
    LET kept == IF valid /\ loops # <<>>
                THEN SubSeq(loops, 1, Len(loops) - 1) ELSE loops
    IN  [i \in 1..Len(kept) |-> TRUE]

ResetTimers(q) == [i \in 1..Len(q) |-> TRUE]

\* finishSpin, called by each checkStop loop that sees stopRequested: it
\* returns at once without a pending winner, else it sets the reel timers.
FinishSpinRuns(loops, pending) ==
    IF pending = Null THEN <<>> ELSE loops

\* --------------------------------------------------------------- handlers
\* Variant: startSpin without its phase test.
StartSpinGuardNoPhase ==
    /\ Len(winners) < getTotalPrizes(prizeQueue)
    /\ hasParticipants(participants)

\* DrawManager.startSpin (with SlotMachine.startSpin).
StartSpinGuard ==
    /\ state = STATE_READY
    /\ Len(winners) < getTotalPrizes(prizeQueue)
    /\ hasParticipants(participants)

StartSpin ==
    /\ Outstanding < MaxPending
    /\ Handled("startSpin", 0, StartSpinGuard /\ ~isSpinning)
    /\ notified' = 0
    /\ IF StartSpinGuard /\ ~isSpinning
       THEN /\ isSpinning' = TRUE
            /\ stopRequested' = FALSE
            /\ smPendingWinner' = Null
            /\ rafLoops' = Append(rafLoops, FALSE)
            /\ animValid' = TRUE
            /\ state' = updateButtons(STATE_SPINNING, winners, prizeQueue, participants)
            /\ UNCHANGED <<participants, finalQ, pendingWinner>>
       ELSE UNCHANGED <<smVars, dmVars>>
    /\ UNCHANGED <<appVars, pmVars, winners>>

\* DrawManager.stopSpin (with SlotMachine.stop): the winner is picked now.
StopSpin ==
    /\ Handled("stopSpin", 0, state = STATE_SPINNING /\ isSpinning /\ ~stopRequested)
    /\ notified' = 0
    /\ IF state = STATE_SPINNING /\ isSpinning /\ ~stopRequested
       THEN /\ stopRequested' = TRUE
            /\ IF participants = <<>>
               THEN smPendingWinner' = Null
               ELSE \E w \in 1..Len(participants) :
                        smPendingWinner' = participants[w]
       ELSE UNCHANGED <<stopRequested, smPendingWinner>>
    /\ UNCHANGED <<appVars, pmVars, winners, dmVars, participants, isSpinning,
                   rafLoops, animValid, finalQ>>

\* One animation frame: every live checkStop callback runs, in request order.
AnimationFrame ==
    /\ rafLoops # <<>>
    /\ IF stopRequested
       THEN /\ finalQ' = finalQ \o FinishSpinRuns(rafLoops, smPendingWinner)
            /\ rafLoops' = <<>>
            /\ animValid' = FALSE
       ELSE /\ animValid' = TRUE
            /\ UNCHANGED <<finalQ, rafLoops>>
    /\ UNCHANGED <<appVars, pmVars, winners, dmVars, participants, isSpinning,
                   stopRequested, smPendingWinner, lastCall, notified, rt>>

\* DrawManager.onSpinComplete(winner), reached from the final timer.
onSpinComplete(winner) ==
    IF winner = Null
    THEN UNCHANGED dmVars
    ELSE /\ pendingWinner' = winner
         /\ state' = updateButtons(STATE_STOPPED, winners, prizeQueue, participants)

\* The timers of the oldest finishSpin run, through to the last: the six
\* reel timers (0..1000 ms) write the display only, and the last of them sets
\* the 300 ms timer that clears isSpinning and dispatches spinComplete with
\* this.pendingWinner as it is then.  Runs end in the order they were set.
\* With pendingWinner null, reading pendingWinner.name throws before the
\* dispatch; either way DrawManager takes no winner.
FinalTimer ==
    /\ finalQ # <<>>
    /\ Handled(IF Head(finalQ) THEN "staleSpinComplete" ELSE "spinComplete", 0,
           smPendingWinner # Null)
    /\ notified' = 0
    /\ finalQ' = Tail(finalQ)
    /\ isSpinning' = FALSE
    /\ onSpinComplete(smPendingWinner)
    /\ UNCHANGED <<appVars, pmVars, winners, participants, stopRequested,
                   smPendingWinner, rafLoops, animValid>>

\* Variant: no callback set (`if (this.onStateChange)` false).
OnStateChangeUnset(idx, st, ws, pool) ==
    /\ notified' = 0
    /\ UNCHANGED storage
    /\ currentIndex' = idx

\* The onStateChange callback set by LotteryApp.initComponents: saveState,
\* then autoSelectNextAvailablePrize, on the values the handler has written.
OnStateChange(idx, st, ws, pool) ==
    /\ notified' = 1
    /\ storage' = <<Snapshot(pool, pmOriginalPrizes, idx, ws,
                             originalParticipants, originalPrizes)>>
    /\ currentIndex' =
         autoSelectNextAvailablePrize(idx, st, prizeQueue, ws, originalPrizes, pool).idx

\* Variant: confirmWinner without its opening guard.
ConfirmGuardDropped == TRUE

\* DrawManager.confirmWinner.  With no current prize, addWinner throws on
\* prize.id before anything is written.
ConfirmGuard == state = STATE_STOPPED /\ pendingWinner # Null

ConfirmWinner ==
    /\ Handled("confirmWinner", 0,
           ConfirmGuard /\ getCurrentPrize(prizeQueue, currentIndex) # NoPrize)
    /\ IF ConfirmGuard /\ getCurrentPrize(prizeQueue, currentIndex) # NoPrize
       THEN LET ws1 == addWinner(winners, pendingWinner,
                                 getCurrentPrize(prizeQueue, currentIndex))
                pool1 == removeParticipant(participants, pendingWinner.id)
                idx1 == advanceToNextPrize(prizeQueue, currentIndex)
                st1 == updateButtons(STATE_READY, ws1, prizeQueue, pool1)
            IN  /\ winners' = ws1
                /\ participants' = pool1
                /\ pendingWinner' = Null
                /\ smPendingWinner' = Null
                /\ OnStateChange(idx1, st1, ws1, pool1)
                /\ state' = autoSelectNextAvailablePrize(
                                idx1, st1, prizeQueue, ws1, originalPrizes, pool1).st
                /\ UNCHANGED <<originalParticipants, originalPrizes, adminParticipants,
                               pmOriginalPrizes, prizeQueue, isSpinning, stopRequested,
                               rafLoops, animValid, finalQ>>
       ELSE /\ notified' = 0
            /\ UNCHANGED <<appVars, pmVars, winners, smVars, dmVars>>

\* DrawManager.respin (with SlotMachine.reset), given the value its first
\* statement assigns to this.pendingWinner.
RespinWrites(pending) ==
    /\ Handled("respin", 0, state = STATE_STOPPED)
    /\ notified' = 0
    /\ IF state = STATE_STOPPED
       THEN /\ pendingWinner' = pending
            /\ smPendingWinner' = Null
            /\ isSpinning' = FALSE
            /\ stopRequested' = FALSE
            /\ rafLoops' = ResetLoops(rafLoops, animValid)
            /\ animValid' = FALSE
            /\ finalQ' = ResetTimers(finalQ)
            /\ state' = updateButtons(STATE_READY, winners, prizeQueue, participants)
            /\ UNCHANGED participants
       ELSE UNCHANGED <<smVars, dmVars>>
    /\ UNCHANGED <<appVars, pmVars, winners>>

\* Variant: respin without its first statement, the pending winner kept.
RespinKeepsPending == RespinWrites(pendingWinner)

\* DrawManager.respin: this.pendingWinner = null, and the rest.
Respin == RespinWrites(Null)

\* Variant: undoLastDraw without its test of what removeLastWinner returned.
UndoGuardDropped == TRUE

\* undoLastDraw goes on only if removeLastWinner returned an entry.
UndoGuard == winners # <<>>

\* DrawManager.undoLastDraw (the admin panel's Undo button).  The callback
\* runs before state is set to READY and the UI is refreshed.
UndoLastDraw ==
    /\ Handled("undoLastDraw", 0, UndoGuard)
    /\ IF UndoGuard
       THEN LET lastWinner == removedWinner(winners)
                ws1 == removeLastWinner(winners)
                idx1 == undoLastPrize(currentIndex)
                pool1 == addParticipant(participants,
                             [id |-> lastWinner.id, name |-> lastWinner.name])
            IN  /\ winners' = ws1
                /\ participants' = pool1
                /\ OnStateChange(idx1, state, ws1, pool1)
                /\ state' = updateButtons(STATE_READY, ws1, prizeQueue, pool1)
                /\ UNCHANGED <<originalParticipants, originalPrizes, adminParticipants,
                               pmOriginalPrizes, prizeQueue, pendingWinner, isSpinning,
                               stopRequested, smPendingWinner, rafLoops, animValid, finalQ>>
       ELSE /\ notified' = 0
            /\ UNCHANGED <<appVars, pmVars, winners, smVars, dmVars>>

\* DrawManager.readdWinner(participantId).
ReaddWinner(participantId) ==
    /\ Handled("readdWinner", participantId,
           WinnerIndexById(winners, participantId) # 0)
    /\ IF WinnerIndexById(winners, participantId) # 0
       THEN LET winner == winners[WinnerIndexById(winners, participantId)]
                ws1 == removeWinnerById(winners, participantId)
                pool1 == addParticipant(participants,
                             [id |-> winner.id, name |-> winner.name])
            IN  /\ winners' = ws1
                /\ participants' = pool1
                /\ OnStateChange(currentIndex, state, ws1, pool1)
                /\ state' = autoSelectNextAvailablePrize(
                                currentIndex, state, prizeQueue, ws1,
                                originalPrizes, pool1).st
                /\ UNCHANGED <<originalParticipants, originalPrizes, adminParticipants,
                               pmOriginalPrizes, prizeQueue, pendingWinner, isSpinning,
                               stopRequested, smPendingWinner, rafLoops, animValid, finalQ>>
       ELSE /\ notified' = 0
            /\ UNCHANGED <<appVars, pmVars, winners, smVars, dmVars>>

\* LotteryApp.selectPrize(prizeId), from a click on a prize-selector option.
SelectPrize(prizeId) ==
    /\ Handled("selectPrize", prizeId,
           SelectPrizeIndex(prizeId, prizeQueue, winners, originalPrizes) # -1)
    /\ notified' = 0
    /\ LET r == selectPrize(prizeId, currentIndex, state, prizeQueue, winners,
                            originalPrizes, participants)
       IN  /\ currentIndex' = r.idx
           /\ state' = r.st
    /\ UNCHANGED <<appVars, pmOriginalPrizes, prizeQueue, winners, smVars,
                   pendingWinner>>

\* The language toggle: drawManager.updateUI(), then saveState() on the
\* state as it is (the language itself is display only).
ToggleLanguage ==
    /\ Handled("toggleLanguage", 0, TRUE)
    /\ notified' = 0
    /\ state' = updateButtons(state, winners, prizeQueue, participants)
    /\ storage' = <<Snapshot(participants, pmOriginalPrizes, currentIndex, winners,
                             originalParticipants, originalPrizes)>>
    /\ UNCHANGED <<originalParticipants, originalPrizes, adminParticipants,
                   pmVars, winners, smVars, pendingWinner>>

\* The admin panel's Reset button: DrawManager.reset(originalParticipants)
\* (which notifies, so the state is saved) and then storage.clear().
Reset ==
    /\ Handled("reset", 0, TRUE)
    /\ notified' = 1
    /\ LET st1 == updateButtons(STATE_READY, <<>>, prizeQueue, adminParticipants)
           r == autoSelectNextAvailablePrize(0, st1, prizeQueue, <<>>,
                                             originalPrizes, adminParticipants)
       IN  /\ currentIndex' = r.idx
           /\ state' = r.st
    /\ winners' = <<>>
    /\ participants' = adminParticipants
    /\ isSpinning' = FALSE
    /\ stopRequested' = FALSE
    /\ smPendingWinner' = Null
    /\ rafLoops' = ResetLoops(rafLoops, animValid)
    /\ animValid' = FALSE
    /\ finalQ' = ResetTimers(finalQ)
    /\ pendingWinner' = Null
    /\ storage' = <<>>
    /\ UNCHANGED <<originalParticipants, originalPrizes, adminParticipants,
                   pmOriginalPrizes, prizeQueue>>

\* The onDataImport callback, type 'participants' (after handleImport's
\* validation has stored the list in the admin panel).
ImportParticipants(data) ==
    /\ Handled("importParticipants", 0, TRUE)
    /\ notified' = 0
    /\ originalParticipants' = data
    /\ adminParticipants' = data
    /\ currentIndex' = 0
    /\ winners' = <<>>
    /\ participants' = data
    /\ storage' = <<>>
    /\ state' = updateButtons(state, <<>>, prizeQueue, data)
    /\ UNCHANGED <<originalPrizes, pmOriginalPrizes, prizeQueue, pendingWinner,
                   isSpinning, stopRequested, smPendingWinner, rafLoops, animValid, finalQ>>

\* The onDataImport callback, type 'prizes' (PrizeManager.setPrizes).
ImportPrizes(data) ==
    /\ Handled("importPrizes", 0, TRUE)
    /\ notified' = 0
    /\ originalPrizes' = data
    /\ pmOriginalPrizes' = data
    /\ prizeQueue' = buildPrizeQueue(data)
    /\ currentIndex' = 0
    /\ winners' = <<>>
    /\ participants' = originalParticipants
    /\ storage' = <<>>
    /\ state' = updateButtons(state, <<>>, buildPrizeQueue(data), originalParticipants)
    /\ UNCHANGED <<originalParticipants, adminParticipants, pendingWinner,
                   isSpinning, stopRequested, smPendingWinner, rafLoops, animValid, finalQ>>

\* A page reload: LotteryApp.init runs again on a fresh page (loadData,
\* initComponents, loadSavedState, drawManager.updateUI(),
\* autoSelectNextAvailablePrize); every frame request and timer of the old
\* page is gone.  roster is what loadData leaves in originalParticipants.
RefreshFrom(roster) ==
    /\ Handled("init", 0, TRUE)
    /\ notified' = 0
    /\ LET saved == storage # <<>>
           snap == storage[1]
           origP == IF saved THEN snap.originalParticipants ELSE roster
           origZ == IF saved THEN snap.originalPrizes ELSE InitialPrizes
           pmZ == IF saved THEN snap.prizes.originalPrizes ELSE InitialPrizes
           queue == buildPrizeQueue(pmZ)
           idx0 == IF saved
                   THEN ClampIndex(MathFloor(snap.prizes.currentIndex), queue)
                   ELSE 0
           ws == IF saved THEN snap.winners ELSE <<>>
           pool == IF saved THEN snap.participants ELSE roster
           \* loadSavedState ends with autoSelectNextAvailablePrize
           r1 == IF saved
                 THEN autoSelectNextAvailablePrize(idx0, STATE_READY, queue, ws, origZ, pool)
                 ELSE [idx |-> idx0, st |-> STATE_READY]
           \* init: drawManager.updateUI(), then autoSelectNextAvailablePrize
           st2 == updateButtons(r1.st, ws, queue, pool)
           r2 == autoSelectNextAvailablePrize(r1.idx, st2, queue, ws, origZ, pool)
       IN  /\ originalParticipants' = origP
           /\ adminParticipants' = origP
           /\ originalPrizes' = origZ
           /\ pmOriginalPrizes' = pmZ
           /\ prizeQueue' = queue
           /\ currentIndex' = r2.idx
           /\ winners' = ws
           /\ participants' = pool
           /\ state' = r2.st
    /\ isSpinning' = FALSE
    /\ stopRequested' = FALSE
    /\ smPendingWinner' = Null
    /\ rafLoops' = <<>>
    /\ animValid' = FALSE
    /\ finalQ' = <<>>
    /\ pendingWinner' = Null
    /\ UNCHANGED storage

ParticipantIds == 1..NumParticipants
TierIds == {InitialPrizes[i].id : i \in 1..Len(InitialPrizes)}

\* A reload with data/participants.json as shipped.
Refresh == RefreshFrom(InitialParticipants)

\* Every step but a page reload.
Commands ==
    \/ StartSpin
    \/ StopSpin
    \/ AnimationFrame
    \/ FinalTimer
    \/ ConfirmWinner
    \/ Respin
    \/ UndoLastDraw
    \/ \E id \in ParticipantIds : ReaddWinner(id)
    \/ \E prizeId \in TierIds : SelectPrize(prizeId)
    \/ Reset
    \/ ToggleLanguage
    \/ \E data \in ImportParticipantLists : ImportParticipants(data)
    \/ \E data \in ImportPrizeLists : ImportPrizes(data)

Next ==
    \/ Commands
    \/ Refresh

Spec == Init /\ [][Next]_vars

\* The browser runs every requested animation frame and every timer that
\* was set (requestAnimationFrame, setTimeout).
SpecFair == Spec /\ WF_vars(AnimationFrame) /\ WF_vars(FinalTimer)

\* ------------------------------------- no data/participants.json served
\* loadData's `if (participantsResponse.ok)` is false (or the file holds []):
\* originalParticipants stays [] until a list is imported.
NextNoRoster ==
    \/ Commands
    \/ RefreshFrom(<<>>)

InitNoRoster == InitFrom(<<>>)

SpecNoRoster == InitNoRoster /\ [][NextNoRoster]_vars

\* ------------------------------------------------------ the Space key
\* DrawManager.canDraw.
canDraw ==
    /\ state = STATE_READY
    /\ ~(Len(winners) >= getTotalPrizes(prizeQueue))
    /\ hasParticipants(participants)

\* The keydown listener of setupEventListeners on Space, outside an input
\* field; modalOpen is isAnyModalOpen().  With no modal open and canDraw()
\* true it calls this.drawManager.performSpin(), a method DrawManager does
\* not have: the call throws a TypeError and the listener ends with nothing
\* written.  In every other case it returns.  arg records an open modal.
KeySpace(modalOpen) ==
    /\ Handled("keySpace", IF modalOpen THEN 1 ELSE 0, FALSE)
    /\ notified' = 0
    /\ UNCHANGED <<appVars, pmVars, winners, smVars, dmVars>>

NextKeys ==
    \/ Next
    \/ \E modalOpen \in BOOLEAN : KeySpace(modalOpen)

SpecKeys == Init /\ [][NextKeys]_vars

\* ------------------------------------------- prize files with bad rows
\* The largest quantity handleImport accepts.
MaxQuantity == 1000

\* Tier lists of a prizes CSV with a row handleImport must refuse (quantity
\* below 1 or above MaxQuantity, id 0 or negative), as parsed by parseInt.
InvalidPrizeLists ==
    { <<Tier(2, 0), Tier(1, 1)>>,
      <<Tier(2, 1), Tier(1, MaxQuantity + 1)>>,
      <<Tier(2, 1), Tier(1, -1)>>,
      <<Tier(0, 1), Tier(1, 1)>>,
      <<Tier(2, 1), Tier(-1, 1)>>,
      <<Tier(1, 0)>> }

\* Variant: the validation without the lower bound on the quantity.
ValidPrizeNoLowerBound(p) ==
    /\ p.id > 0
    /\ p.quantity <= MaxQuantity

\* handleImport's test of one parsed prize row (names are never empty here;
\* parseInt yields integers).
ValidPrize(p) ==
    /\ p.id > 0
    /\ p.quantity > 0 /\ p.quantity <= MaxQuantity

\* AdminPanel.handleImport(event, 'prizes') on a parsed file: a failed
\* validation throws before anything is stored (the alert and the cleared
\* file input are display only); otherwise the onDataImport callback runs.
\* AdminPanel.originalPrizes, which nothing reads, is left out.
HandleImportPrizes(data) ==
    \/ /\ \A i \in 1..Len(data) : ValidPrize(data[i])
       /\ ImportPrizes(data)
    \/ /\ ~\A i \in 1..Len(data) : ValidPrize(data[i])
       /\ Handled("importPrizes", 0, FALSE)
       /\ notified' = 0
       /\ UNCHANGED <<appVars, pmVars, winners, smVars, dmVars>>

NextImport ==
    \/ Next
    \/ \E data \in ImportPrizeLists \cup InvalidPrizeLists : HandleImportPrizes(data)

SpecImport == Init /\ [][NextImport]_vars

\* ----------------------------------------------- draws and undos only
\* The application with a tier list in place (data/prizes.json, or a list
\* imported before the first draw) and nothing drawn yet.
InitDraw ==
    /\ originalParticipants = InitialParticipants
    /\ originalPrizes \in {InitialPrizes} \cup ImportPrizeLists
    /\ adminParticipants = InitialParticipants
    /\ storage = <<>>
    /\ pmOriginalPrizes = originalPrizes
    /\ prizeQueue = buildPrizeQueue(originalPrizes)
    /\ currentIndex = 0
    /\ winners = <<>>
    /\ participants = InitialParticipants
    /\ isSpinning = FALSE
    /\ stopRequested = FALSE
    /\ smPendingWinner = Null
    /\ rafLoops = <<>>
    /\ animValid = FALSE
    /\ finalQ = <<>>
    /\ state = updateButtons(STATE_READY, <<>>, prizeQueue, InitialParticipants)
    /\ pendingWinner = Null
    /\ lastCall = [op |-> "init", arg |-> 0, done |-> TRUE, reconfirm |-> FALSE]
    /\ notified = 0
    /\ rt = RtOff

\* Spin, stop, confirm, respin and undo, with the animator's frames and
\* timers; no manual selection, no readdWinner, no import.
NextDraw ==
    \/ StartSpin
    \/ StopSpin
    \/ AnimationFrame
    \/ FinalTimer
    \/ ConfirmWinner
    \/ Respin
    \/ UndoLastDraw

SpecDraw == InitDraw /\ [][NextDraw]_vars

\* ------------------------------------- SlotMachine.addParticipant, called
\* SlotMachine.addParticipant(participant) called on the pool as it is; it
\* returns false when the id is present.
AddParticipant(participant) ==
    /\ Handled("addParticipant", participant.id,
           ~\E i \in 1..Len(participants) : participants[i].id = participant.id)
    /\ notified' = 0
    /\ participants' = addParticipant(participants, participant)
    /\ UNCHANGED <<appVars, pmVars, winners, dmVars, isSpinning, stopRequested,
                   smPendingWinner, rafLoops, animValid, finalQ>>

NextPool ==
    \/ Next
    \/ \E i \in ParticipantIds : AddParticipant(Participant(i))

SpecPool == Init /\ [][NextPool]_vars

\* ------------------------------------------- snapshots edited by hand
\* Largest cursor value written into a snapshot by hand.
MaxEditedIndex == 4
\* The values written, in halves: -1.5 .. MaxEditedIndex + 0.5.
EditedIndexes == (-3)..(2 * MaxEditedIndex + 1)

\* localStorage['lottery_state'] edited outside the application: the saved
\* prizes.currentIndex replaced by another number.
EditSnapshot(x) ==
    /\ storage # <<>>
    /\ Handled("editSnapshot", 0, TRUE)
    /\ notified' = 0
    /\ storage' = <<[storage[1] EXCEPT !.prizes.currentIndex = x]>>
    /\ UNCHANGED <<originalParticipants, originalPrizes, adminParticipants,
                   pmVars, winners, smVars, dmVars>>

NextEdited ==
    \/ Next
    \/ \E x \in EditedIndexes : EditSnapshot(x)

SpecEdited == Init /\ [][NextEdited]_vars

\* ------------------------------------------------ round trips, watched
\* Start watching a round trip from a READY state.
Mark ==
    /\ rt.mode = "off"
    /\ state = STATE_READY
    /\ rt' = [mode |-> "up", n |-> 0, ledger |-> winners,
              pool |-> {participants[i] : i \in 1..Len(participants)},
              cursor |-> currentIndex]
    /\ UNCHANGED <<appVars, pmVars, winners, smVars, dmVars, lastCall, notified>>

NextRT ==
    \/ Mark
    \/ Next

SpecRT == Init /\ [][NextRT]_vars

\* ------------------------------------------- PrizeManager in isolation
Tiers == {Tier(i, q) : i \in 1..MaxTierId, q \in 1..MaxQty}
TierLists == UNION {[1..n -> Tiers] : n \in 0..MaxTiers}

\* A PrizeManager on its own, constructed with the default prizes = [], and
\* in originalPrizes any tier list that setPrizes is about to be given (an
\* imported list, or the list of data/prizes.json).
InitPM ==
    /\ originalParticipants = InitialParticipants
    /\ originalPrizes \in TierLists
    /\ adminParticipants = InitialParticipants
    /\ storage = <<>>
    /\ pmOriginalPrizes = <<>>
    /\ prizeQueue = buildPrizeQueue(<<>>)
    /\ currentIndex = 0
    /\ winners = <<>>
    /\ participants = InitialParticipants
    /\ isSpinning = FALSE
    /\ stopRequested = FALSE
    /\ smPendingWinner = Null
    /\ rafLoops = <<>>
    /\ animValid = FALSE
    /\ finalQ = <<>>
    /\ state = STATE_READY
    /\ pendingWinner = Null
    /\ lastCall = [op |-> "new", arg |-> 0, done |-> TRUE, reconfirm |-> FALSE]
    /\ notified = 0
    /\ rt = RtOff

\* PrizeManager.setPrizes(prizes).
SetPrizes(prizes) ==
    /\ Handled("setPrizes", 0, TRUE)
    /\ notified' = 0
    /\ pmOriginalPrizes' = prizes
    /\ prizeQueue' = buildPrizeQueue(prizes)
    /\ currentIndex' = 0
    /\ UNCHANGED <<appVars, winners, smVars, dmVars>>

NextPM ==
    \/ SetPrizes(originalPrizes)

SpecPM == InitPM /\ [][NextPM]_vars

\* ------------------------------- PrizeManager given lists with bad tiers
\* Tiers as a prizes file, a snapshot or a caller may hold them, valid or
\* not: ids from -1, quantities around both limits.
RawTiers ==
    {Tier(i, q) : i \in (-1)..2, q \in {-1, 0, 1, MaxQuantity, MaxQuantity + 1}}
RawTierLists == UNION {[1..n -> RawTiers] : n \in 1..2}

\* A PrizeManager constructed with the default prizes = [], and in
\* originalPrizes the list that setPrizes is about to be given.
InitLoad ==
    /\ originalParticipants = InitialParticipants
    /\ originalPrizes \in RawTierLists
    /\ adminParticipants = InitialParticipants
    /\ storage = <<>>
    /\ pmOriginalPrizes = <<>>
    /\ prizeQueue = buildPrizeQueue(<<>>)
    /\ currentIndex = 0
    /\ winners = <<>>
    /\ participants = InitialParticipants
    /\ isSpinning = FALSE
    /\ stopRequested = FALSE
    /\ smPendingWinner = Null
    /\ rafLoops = <<>>
    /\ animValid = FALSE
    /\ finalQ = <<>>
    /\ state = STATE_READY
    /\ pendingWinner = Null
    /\ lastCall = [op |-> "new", arg |-> 0, done |-> TRUE, reconfirm |-> FALSE]
    /\ notified = 0
    /\ rt = RtOff

NextLoad ==
    \/ SetPrizes(originalPrizes)

SpecLoad == InitLoad /\ [][NextLoad]_vars

\* ------------------------------------------------------------------ claims
PoolIds(pool) == {pool[i].id : i \in 1..Len(pool)}
PoolSet(pool) == {pool[i] : i \in 1..Len(pool)}

RECURSIVE SumQuantity(_)
SumQuantity(prizes) ==
    IF prizes = <<>> THEN 0
    ELSE Head(prizes).quantity + SumQuantity(Tail(prizes))

DistinctIds(prizes) ==
    \A i, j \in 1..Len(prizes) : i # j => prizes[i].id # prizes[j].id

Committed(op) == lastCall.op = op /\ lastCall.done

C2_RoundTrip ==
    rt.mode = "done" =>
        /\ winners = rt.ledger
        /\ PoolSet(participants) = rt.pool
        /\ currentIndex = rt.cursor

\* C3 (as claimed): the phase is COMPLETE exactly when the ledger count
\* equals the sum of the tier quantities.
C3_CompleteIffLedgerFull ==
    (state = STATE_COMPLETE) <=> (Len(winners) = SumQuantity(originalPrizes))

\* C4 (as claimed): with the ledger below the total, a non-empty pool, no
\* spin running and no winner pending, the phase is READY.
C4_CompleteNotLatched ==
    ( /\ Len(winners) < SumQuantity(originalPrizes)
      /\ participants # <<>>
      /\ ~isSpinning
      /\ state \notin {STATE_SPINNING, STATE_STOPPED}
      /\ pendingWinner = Null )
    => state = STATE_READY

\* C5 (as claimed): the report of a spin that a reset cancelled never sets
\* DrawManager.pendingWinner nor moves the phase.
C5_StaleReportDiscarded ==
    [][ (lastCall'.op = "staleSpinComplete" /\ Len(finalQ') < Len(finalQ))
        => UNCHANGED <<pendingWinner, state>>
      ]_vars

\* C6 (as claimed): an import while the phase is SPINNING or STOPPED leaves
\* the phase READY with no pending winner.
C6_ImportCancelsSpin ==
    [][ ( /\ state \in {STATE_SPINNING, STATE_STOPPED}
          /\ lastCall'.op \in {"importParticipants", "importPrizes"}
          /\ UNCHANGED <<rafLoops, animValid, finalQ>>
          /\ storage' = <<>> /\ winners' = <<>> /\ currentIndex' = 0 )
        => (state' = STATE_READY /\ pendingWinner' = Null)
      ]_vars

\* C7 (as claimed): a report naming a participant who is not in the pool is
\* rejected: phase, pending winner, pool, ledger and cursor stay as they are.
C7_NonMemberReportRejected ==
    [][ ( /\ lastCall'.op \in {"spinComplete", "staleSpinComplete"}
          /\ Len(finalQ') < Len(finalQ)
          /\ smPendingWinner # Null
          /\ smPendingWinner.id \notin PoolIds(participants) )
        => UNCHANGED <<state, pendingWinner, participants, winners, currentIndex>>
      ]_vars

\* C8 (as claimed): when selectPrize(tierId) moves the cursor, the entry at
\* the new cursor is of tier tierId and no ledger entry holds its
\* (tier id, instance).
C8_SelectLandsUnawarded ==
    [][ ( /\ lastCall'.op = "selectPrize"
          /\ lastCall'.done
          /\ UNCHANGED <<rafLoops, animValid, finalQ, winners>> )
        => /\ currentIndex' < Len(prizeQueue)
           /\ LET slot == prizeQueue[currentIndex' + 1]
              IN  /\ slot.id = lastCall'.arg
                  /\ \A i \in 1..Len(winners) :
                        ~(winners[i].prize.id = slot.id
                            /\ winners[i].prize.instance = slot.instance)
      ]_vars

\* C9: for tiers with distinct ids the queue has length sum(quantity), is
\* ordered by tier id descending, and each tier fills quantity consecutive
\* slots numbered 1..quantity in ascending order.
C9_QueueShape ==
    DistinctIds(pmOriginalPrizes) =>
        /\ Len(prizeQueue) = SumQuantity(pmOriginalPrizes)
        /\ \A i \in 1..Len(prizeQueue) - 1 : prizeQueue[i].id >= prizeQueue[i + 1].id
        /\ \A i \in 1..Len(prizeQueue) :
              \E t \in 1..Len(pmOriginalPrizes) :
                  pmOriginalPrizes[t].id = prizeQueue[i].id
        /\ \A t \in 1..Len(pmOriginalPrizes) :
              LET at == {i \in 1..Len(prizeQueue) :
                            prizeQueue[i].id = pmOriginalPrizes[t].id}
              IN  /\ Cardinality(at) = pmOriginalPrizes[t].quantity
                  /\ \A i \in at :
                        /\ prizeQueue[i].quantity = pmOriginalPrizes[t].quantity
                        /\ prizeQueue[i].instance
                             = 1 + Cardinality({j \in at : j < i})
                        /\ \A j \in at : \A k \in 1..Len(prizeQueue) :
                              (j < k /\ k < i) => k \in at

\* C9 witness: the scenario of the claim, built by setPrizes.
C9_Witness ==
    /\ Committed("setPrizes")
    /\ pmOriginalPrizes = <<Tier(1, 1), Tier(2, 2)>>
    /\ Len(prizeQueue) = 3
    /\ <<prizeQueue[1].id, prizeQueue[1].instance>> = <<2, 1>>
    /\ <<prizeQueue[2].id, prizeQueue[2].instance>> = <<2, 2>>
    /\ <<prizeQueue[3].id, prizeQueue[3].instance>> = <<1, 1>>
    /\ currentIndex = 0

\* C10: a confirmWinner call that directly follows a confirmWinner call adds
\* no ledger entry, removes nobody from the pool and leaves cursor, phase and
\* pending winner as they are.
C10_SecondConfirmNoOp ==
    [][ (lastCall.op = "confirmWinner" /\ lastCall'.op = "confirmWinner")
        => UNCHANGED <<winners, participants, currentIndex, state, pendingWinner>>
      ]_vars

\* C10 witness: a committed confirm was followed at once by a second confirm
\* call, which was refused.
C10_Witness ==
    /\ lastCall.op = "confirmWinner"
    /\ lastCall.reconfirm
    /\ ~lastCall.done
    /\ winners # <<>>
    /\ storage # <<>> /\ storage[1].winners = winners

\* What a refused call leaves alone: pool, ledger, cursor, pending winner and
\* phase, and with them the animator's flags and the saved snapshot.
NothingWritten ==
    UNCHANGED <<participants, winners, currentIndex, pendingWinner, state,
                isSpinning, stopRequested, smPendingWinner, storage>>

\* C11: startSpin when the phase is not READY, the pool is empty or the
\* ledger has reached the total, stopSpin when the phase is not SPINNING, and
\* confirmWinner and respin when the phase is not STOPPED, write nothing.
C11_IllegalNoOp ==
    [][ /\ ( /\ lastCall'.op = "startSpin"
              /\ \/ state # STATE_READY
                 \/ participants = <<>>
                 \/ Len(winners) >= Len(prizeQueue) ) => NothingWritten
        /\ (lastCall'.op = "stopSpin" /\ state # STATE_SPINNING) => NothingWritten
        /\ ( /\ lastCall'.op \in {"confirmWinner", "respin"}
              /\ state # STATE_STOPPED ) => NothingWritten
      ]_vars

\* C11 witness: between a stop request and the winner report, a confirm has
\* been called and refused.
C11_Witness ==
    /\ lastCall.op = "confirmWinner"
    /\ ~lastCall.done
    /\ state = STATE_SPINNING
    /\ stopRequested
    /\ smPendingWinner # Null
    /\ pendingWinner = Null

\* C12: undoLastDraw on an empty ledger writes nothing, in whatever phase:
\* pool, cursor, ledger, pending winner and phase stay, and nothing is saved
\* (no state-change notification).
C12_UndoEmptyNoOp ==
    [][ (lastCall'.op = "undoLastDraw" /\ winners = <<>>) => NothingWritten ]_vars

\* C12 witness: an undo was called with an empty ledger while a winner was
\* awaiting confirmation, and refused.
C12_Witness ==
    /\ lastCall.op = "undoLastDraw"
    /\ ~lastCall.done
    /\ winners = <<>>
    /\ state = STATE_STOPPED
    /\ pendingWinner # Null
    /\ storage = <<>>

\* C13: undoLastDraw with a non-empty ledger removes exactly the last ledger
\* entry, puts that entry's participant in the pool beside the members
\* already there, and leaves the phase READY; when the phase was COMPLETE a
\* startSpin is accepted afterwards.
C13_UndoPopsLast ==
    [][ ( /\ lastCall'.op = "undoLastDraw"
          /\ winners # <<>>
          /\ UNCHANGED <<rafLoops, animValid, finalQ>> )
        => LET last == winners[Len(winners)]
           IN  /\ winners' = SubSeq(winners, 1, Len(winners) - 1)
               /\ PoolSet(participants')
                    = PoolSet(participants) \cup {[id |-> last.id, name |-> last.name]}
               /\ state' = STATE_READY
               /\ state = STATE_COMPLETE
                    => /\ ~isSpinning'
                       /\ participants' # <<>>
                       /\ Len(winners') < Len(prizeQueue')
      ]_vars

\* C13 witness: an undo has just taken the second of two draws back, out of
\* a draw that had emptied the pool, and the phase is READY with the state
\* saved.
C13_Witness ==
    /\ Committed("undoLastDraw")
    /\ Len(winners) = 1
    /\ Len(participants) = 1
    /\ participants[1].id # winners[1].id
    /\ state = STATE_READY
    /\ ~isSpinning
    /\ storage # <<>> /\ storage[1].winners = winners

\* C14: respin in phase STOPPED clears the pending winner and leaves the
\* phase READY; ledger, pool and cursor are unchanged and nothing is saved
\* (no state-change notification).
C14_RespinDiscards ==
    [][ ( /\ lastCall'.op = "respin"
          /\ state = STATE_STOPPED
          /\ lastCall'.done )
        => /\ pendingWinner' = Null
           /\ state' = STATE_READY
           /\ UNCHANGED <<winners, participants, currentIndex, storage>>
      ]_vars

\* C14 witness: a respin has just discarded a pending winner, with an
\* earlier draw in the ledger and in the saved state.
C14_Witness ==
    /\ Committed("respin")
    /\ state = STATE_READY
    /\ pendingWinner = Null
    /\ smPendingWinner = Null
    /\ winners # <<>>
    /\ storage # <<>> /\ storage[1].winners = winners

\* C15 (as claimed): the Reset button (DrawManager.reset(originalParticipants)),
\* in any phase, leaves the ledger empty, the cursor at 0, the pool equal to
\* originalParticipants, no pending winner, the animator not spinning and the
\* phase READY.
C15_ResetReady ==
    [][ ( /\ lastCall'.op = "reset"
          /\ animValid' = FALSE
          /\ Len(rafLoops') <= Len(rafLoops) /\ Len(finalQ') = Len(finalQ) )
        => /\ winners' = <<>>
           /\ currentIndex' = 0
           /\ participants' = adminParticipants
           /\ pendingWinner' = Null
           /\ ~isSpinning'
           /\ state' = STATE_READY
      ]_vars

\* C16 (as claimed): a startSpin call made with the phase READY, a non-empty
\* pool and the ledger below the total arms the animator and leaves the
\* phase SPINNING.
C16_StartSpinArms ==
    [][ ( /\ lastCall'.op = "startSpin"
          /\ \/ UNCHANGED <<rafLoops, animValid, finalQ>>
             \/ Len(rafLoops') > Len(rafLoops)
          /\ state = STATE_READY
          /\ participants # <<>>
          /\ Len(winners) < Len(prizeQueue) )
        => /\ state' = STATE_SPINNING
           /\ isSpinning'
           /\ ~stopRequested'
           /\ Len(rafLoops') = Len(rafLoops) + 1
      ]_vars

\* C17 (as claimed): an undoLastDraw call made while the phase is SPINNING or
\* STOPPED changes neither ledger, pool, cursor nor phase.
C17_UndoOnlyWhenIdle ==
    [][ ( /\ lastCall'.op = "undoLastDraw"
          /\ state \in {STATE_SPINNING, STATE_STOPPED} )
        => UNCHANGED <<winners, participants, currentIndex, state>>
      ]_vars

\* C18 (as claimed): a selectPrize call made while the phase is SPINNING or
\* STOPPED does not move the cursor.
C18_SelectOnlyWhenReady ==
    [][ ( /\ lastCall'.op = "selectPrize"
          /\ state \in {STATE_SPINNING, STATE_STOPPED} )
        => currentIndex' = currentIndex
      ]_vars

\* C19: with the ledger count at or above the sum of the tier quantities, a
\* startSpin call leaves the phase (and everything else) unchanged and a
\* selectPrize call, for any tier id, leaves the cursor unchanged.
C19_FullLedgerRefuses ==
    [][ /\ ( /\ lastCall'.op = "startSpin"
              /\ Len(winners) >= SumQuantity(originalPrizes) ) => NothingWritten
        /\ ( /\ lastCall'.op = "selectPrize"
              /\ Len(winners) >= SumQuantity(originalPrizes) )
             => currentIndex' = currentIndex
      ]_vars

\* C19 witness: with every prize slot awarded, a selectPrize call has been
\* refused.
C19_Witness ==
    /\ lastCall.op = "selectPrize"
    /\ ~lastCall.done
    /\ winners # <<>>
    /\ Len(winners) = SumQuantity(originalPrizes)
    /\ Len(winners) = Len(prizeQueue)


\* C20: readdWinner(participantId) of a participant present in the ledger
\* removes exactly one ledger entry, that participant's, returns the
\* participant to the pool and, once its state-change handling has run, leaves
\* the cursor exactly where it was; for an id not in the ledger it writes
\* nothing.
C20_ReaddKeepsCursor ==
    [][ ( /\ lastCall'.op = "readdWinner"
          /\ UNCHANGED <<rafLoops, animValid, finalQ>> )
        => IF \E k \in 1..Len(winners) : winners[k].id = lastCall'.arg
           THEN /\ \E k \in 1..Len(winners) :
                      /\ winners[k].id = lastCall'.arg
                      /\ winners' = SubSeq(winners, 1, k - 1)
                                        \o SubSeq(winners, k + 1, Len(winners))
                /\ lastCall'.arg \in PoolIds(participants')
                /\ currentIndex' = currentIndex
           ELSE NothingWritten ]_vars

Min(a, b) == IF a < b THEN a ELSE b
Max(a, b) == IF a > b THEN a ELSE b

\* C21: the cursor moves by exactly one per committed draw or undo: after a
\* committed confirm and its state-change handling it is
\* min(old + 1, queue length), after a committed undo it is max(old - 1, 0),
\* and it changes otherwise only through manual prize selection, reset,
\* import or snapshot load.
C21_CursorStepsByOne ==
    [][ /\ ( /\ lastCall'.op = "confirmWinner" /\ lastCall'.done
             /\ winners' # winners )
            => currentIndex' = Min(currentIndex + 1, Len(prizeQueue))
        /\ ( /\ lastCall'.op = "undoLastDraw" /\ lastCall'.done
             /\ winners' # winners )
            => currentIndex' = Max(currentIndex - 1, 0)
        /\ currentIndex' # currentIndex
            => lastCall'.op \in {"confirmWinner", "undoLastDraw", "selectPrize",
                                 "reset", "importParticipants", "importPrizes",
                                 "init"} ]_vars

\* C22: the cursor is always within [0, queue length]: loadState clamps any
\* numeric currentIndex of a snapshot (negative, beyond the queue end or
\* fractional) into that range against the queue rebuilt from the snapshot's
\* tiers, and no later operation takes it outside the range.
C22_CursorInRange ==
    /\ currentIndex \in 0..Len(prizeQueue)
    /\ ( lastCall.op = "init" /\ storage # <<>> )
        => prizeQueue = buildPrizeQueue(storage[1].prizes.originalPrizes)

\* A reload has just read a snapshot whose cursor was a fraction beyond the
\* queue end, and nothing was left to auto-select.
C22_Witness ==
    /\ lastCall.op = "init" /\ storage # <<>>
    /\ storage[1].prizes.currentIndex > 2 * Len(prizeQueue)
    /\ storage[1].prizes.currentIndex % 2 = 1
    /\ currentIndex = Len(prizeQueue)

\* C23: pool ids are unique: addParticipant with an id already present
\* returns false and leaves the pool unchanged, and from participant lists
\* with distinct ids no sequence of operations produces a pool holding two
\* entries with the same id.
C23_PoolIdsUnique ==
    /\ [](Cardinality(PoolIds(participants)) = Len(participants))
    /\ [][ ( /\ lastCall'.op = "addParticipant"
             /\ UNCHANGED <<rafLoops, animValid, finalQ>>
             /\ lastCall'.arg \in PoolIds(participants) )
           => ( participants' = participants /\ ~lastCall'.done ) ]_vars

\* addParticipant has just refused a participant who was drawn earlier and
\* is in the pool again.
C23_Witness ==
    /\ lastCall.op = "addParticipant" /\ ~lastCall.done
    /\ lastCall.arg \in PoolIds(participants)
    /\ winners # <<>>

\* A step of the final timer that hands a winner to DrawManager.
ReportStep ==
    /\ finalQ # <<>> /\ finalQ' = Tail(finalQ)
    /\ lastCall'.op \in {"spinComplete", "staleSpinComplete"}
    /\ smPendingWinner # Null

\* C24: exactly one report per spin: a stop request accepted in phase
\* SPINNING picks the winner from the pool and, with every frame and timer
\* run and unless a reset or reload intervenes, is followed by a spinComplete
\* report; each report moves the phase to STOPPED with that winner pending; a
\* second stop request does not re-pick; and a spin is reported once only,
\* that is, every report finds the animator still spinning.
C24_OneReportPerSpin ==
    /\ [][ ( /\ lastCall'.op = "stopSpin"
             /\ UNCHANGED <<rafLoops, animValid, finalQ>> )
           => IF lastCall'.done
              THEN smPendingWinner' \in PoolSet(participants)
              ELSE smPendingWinner' = smPendingWinner ]_vars
    /\ [][ ReportStep => ( /\ isSpinning
                           /\ state' = STATE_STOPPED
                           /\ pendingWinner' = smPendingWinner ) ]_vars
    /\ ( lastCall.op = "stopSpin" /\ lastCall.done )
         ~> ( \/ lastCall.op \in {"spinComplete", "staleSpinComplete"} /\ lastCall.done
              \/ lastCall.op \in {"reset", "init"} )

\* C25: every committed mutation emits a state-change notification: each
\* successful confirmWinner, undoLastDraw, readdWinner and reset invokes the
\* onStateChange callback exactly once, after the ledger and the pool have
\* been updated (the snapshot it saves holds the new ledger and pool), while
\* rejected operations and respin invoke it zero times.
C25_MutationNotifies ==
    [][ /\ ( /\ lastCall'.op \in {"confirmWinner", "undoLastDraw", "readdWinner"}
             /\ lastCall'.done )
            => ( /\ notified' = 1
                 /\ storage' # <<>>
                 /\ storage'[1].winners = winners'
                 /\ storage'[1].participants = participants' )
        /\ lastCall'.op = "reset" => notified' = 1
        /\ ( /\ lastCall'.op \in {"confirmWinner", "undoLastDraw", "readdWinner",
                                  "startSpin", "stopSpin"}
             /\ ~lastCall'.done )
            => notified' = 0
        /\ lastCall'.op = "respin" => notified' = 0 ]_vars

\* An undo has just been committed and notified once, its snapshot saved.
C25_Witness ==
    /\ lastCall.op = "undoLastDraw" /\ lastCall.done
    /\ notified = 1
    /\ storage # <<>> /\ storage[1].winners = winners

\* C26: a refresh preserves all progress: from every state with no spin
\* running and no winner pending, after at least one committed draw, a reload
\* (loadSavedState on the snapshot saved last, then the start-up
\* auto-selection) yields the same pool, the same ledger and the same cursor
\* as the live state had, also when the cursor was set by manual selection.
C26_RefreshPreserves ==
    [][ ( /\ lastCall'.op = "init"
          /\ ~isSpinning /\ rafLoops = <<>> /\ finalQ = <<>>
          /\ pendingWinner = Null
          /\ state \in {STATE_READY, STATE_COMPLETE}
          /\ winners # <<>> )
        => ( /\ participants' = participants
             /\ winners' = winners
             /\ currentIndex' = currentIndex ) ]_vars

\* C27: prizes are awarded in reverse id order: in a run of spin, stop,
\* confirm, respin and undo only, the tier ids of the ledger entries in award
\* order never increase, so the lowest id is the last one awarded.
C27_AwardOrder ==
    \A i \in 1..(Len(winners) - 1) : winners[i].prize.id >= winners[i + 1].prize.id

\* A draw of a lower-id tier has just been committed after one of a higher id.
C27_Witness ==
    /\ lastCall.op = "confirmWinner" /\ lastCall.done
    /\ Len(winners) >= 2
    /\ winners[Len(winners) - 1].prize.id > winners[Len(winners)].prize.id

\* The admin panel's import refuses every list of InvalidPrizeLists and
\* leaves everything as it was.
ImportRejectsInvalid ==
    [][ \A data \in InvalidPrizeLists :
          HandleImportPrizes(data)
            => ( /\ ~lastCall'.done
                 /\ UNCHANGED <<prizeQueue, currentIndex, winners, participants,
                                originalPrizes, pmOriginalPrizes,
                                originalParticipants, adminParticipants,
                                storage, state, pendingWinner>> ) ]_vars

\* C28: loading a prize-tier list that holds a tier with quantity < 1,
\* quantity > 1000 or id <= 0 is rejected and leaves the prior state
\* untouched: the prize queue, the cursor, the ledger, the pool and the
\* stored original lists are what they were before the attempt.
C28_InvalidTiersRejected ==
    [][ ( /\ lastCall'.op = "setPrizes"
          /\ \E i \in 1..Len(originalPrizes) : ~ValidPrize(originalPrizes[i]) )
        => UNCHANGED <<pmOriginalPrizes, prizeQueue, currentIndex, winners,
                       participants, originalPrizes, originalParticipants>> ]_vars

\* C29: pressing Space while no modal is open and canDraw() holds triggers a
\* draw, the phase becomes SPINNING; when canDraw() is false the key press
\* changes nothing.
C29_SpaceDraws ==
    [][ ( /\ lastCall'.op = "keySpace" /\ lastCall' # lastCall
          /\ lastCall'.arg = 0 )
        => IF canDraw THEN state' = STATE_SPINNING ELSE NothingWritten ]_vars

\* C30: no tier is over-awarded: with distinct tier ids and the
\* auto-selection run on every state-change notification, the number of
\* ledger entries of each tier is at most the tier's quantity, and hence the
\* ledger count never exceeds the sum of the quantities.
C30_NoTierOverAwarded ==
    /\ \A i \in 1..Len(originalPrizes) :
          Len(getWinnersByPrize(winners, originalPrizes[i].id))
              <= originalPrizes[i].quantity
    /\ Len(winners) <= SumQuantity(originalPrizes)

\* A tier has all its instances awarded while another is still open, after
\* a manual selection and a committed draw.
C30_Witness ==
    /\ lastCall.op = "confirmWinner" /\ lastCall.done
    /\ \E i, j \in 1..Len(originalPrizes) :
          /\ Len(getWinnersByPrize(winners, originalPrizes[i].id))
                = originalPrizes[i].quantity
          /\ Len(getWinnersByPrize(winners, originalPrizes[j].id))
                < originalPrizes[j].quantity
          /\ originalPrizes[i].id < originalPrizes[j].id

\* C31 (as claimed): no prize instance is awarded twice: no two ledger
\* entries carry the same (tier id, instance number).
C31_NoInstanceTwice ==
    \A i, j \in 1..Len(winners) :
        i # j => ~( /\ winners[i].prize.id = winners[j].prize.id
                    /\ winners[i].prize.instance = winners[j].prize.instance )

\* ------------------------------------- draws, undos, re-adds, selections
\* Spin, stop, confirm, respin, undo, readdWinner and manual prize selection,
\* with the animator's frames and timers, from the first load; no import,
\* no reset, no reload.
NextConserve ==
    \/ StartSpin
    \/ StopSpin
    \/ AnimationFrame
    \/ FinalTimer
    \/ ConfirmWinner
    \/ Respin
    \/ UndoLastDraw
    \/ \E id \in ParticipantIds : ReaddWinner(id)
    \/ \E prizeId \in TierIds : SelectPrize(prizeId)

SpecConserve == Init /\ [][NextConserve]_vars

LedgerIds(ws) == {ws[i].id : i \in 1..Len(ws)}

\* C32: participants are conserved: from the original list (distinct ids)
\* and an empty ledger, after any sequence of spin, stop, confirm, respin,
\* undo, readdWinner and manual prize selection, the pool ids and the ledger
\* participant ids are disjoint, their union is the set of original
\* participant ids, and no participant appears twice in the ledger.
C32_ParticipantsConserved ==
    /\ PoolIds(participants) \cap LedgerIds(winners) = {}
    /\ PoolIds(participants) \cup LedgerIds(winners) = PoolIds(originalParticipants)
    /\ Cardinality(LedgerIds(winners)) = Len(winners)

\* A drawn participant has just been put back by readdWinner while another
\* stays in the ledger.
C32_Witness ==
    /\ lastCall.op = "readdWinner" /\ lastCall.done
    /\ lastCall.arg \in PoolIds(participants)
    /\ winners # <<>>

\* C33 (as claimed): a pending winner exists exactly in phase STOPPED:
\* DrawManager.pendingWinner is non-null if and only if the phase is STOPPED,
\* and while it is non-null it names a participant who is in the pool and
\* not in the ledger.
C33_PendingIffStopped ==
    /\ (pendingWinner # Null) <=> (state = STATE_STOPPED)
    /\ pendingWinner # Null
        => /\ pendingWinner.id \in PoolIds(participants)
           /\ pendingWinner.id \notin LedgerIds(winners)

\* C34: an active prize always exists while the draw is incomplete: in the
\* wired application, whenever the ledger count is below the sum of the tier
\* quantities (in particular whenever the phase is SPINNING or STOPPED), the
\* cursor is below the queue length and the tier of the entry at the cursor
\* has fewer ledger entries than its quantity; so a confirmWinner that passes
\* its guard always records a prize.
C34_ActivePrizeExists ==
    /\ [] ( /\ state \in {STATE_SPINNING, STATE_STOPPED}
               => Len(winners) < SumQuantity(originalPrizes)
            /\ Len(winners) < SumQuantity(originalPrizes)
               => /\ currentIndex < Len(prizeQueue)
                  /\ Len(getWinnersByPrize(winners, prizeQueue[currentIndex + 1].id))
                        < prizeQueue[currentIndex + 1].quantity )
    /\ [][ ( /\ lastCall'.op = "confirmWinner"
             /\ UNCHANGED <<rafLoops, animValid, finalQ>>
             /\ state = STATE_STOPPED /\ pendingWinner # Null )
           => ( /\ lastCall'.done
                /\ Len(winners') = Len(winners) + 1
                /\ winners'[Len(winners')].prize.id # NoPrize.id ) ]_vars

\* A draw on the last slot of the queue has just been committed with other
\* slots still open, and the auto-selection has brought the cursor back to
\* the first open tier.
C34_Witness ==
    /\ lastCall.op = "confirmWinner" /\ lastCall.done
    /\ Len(winners) = 1
    /\ winners[1].prize.id = prizeQueue[Len(prizeQueue)].id
    /\ winners[1].prize.instance = prizeQueue[Len(prizeQueue)].instance
    /\ Len(prizeQueue) > 1
    /\ currentIndex = 0

\* C35 (as claimed): an import survives a refresh: a reload that directly
\* follows a successful participant or prize import (no draw in between)
\* yields the imported participant list and prize tiers as the pool, the
\* prize queue and the original data used by reset.
C35_ImportSurvivesRefresh ==
    [][ ( /\ lastCall.op \in {"importParticipants", "importPrizes"}
          /\ lastCall.done
          /\ lastCall'.op = "init" )
        => ( /\ participants' = participants
             /\ prizeQueue' = prizeQueue
             /\ originalParticipants' = originalParticipants
             /\ adminParticipants' = adminParticipants
             /\ originalPrizes' = originalPrizes
             /\ pmOriginalPrizes' = pmOriginalPrizes ) ]_vars

\* ------------------------------------- PrizeManager's cursor, stepped
\* PrizeManager.advanceToNextPrize(), called on the manager as it is.
AdvanceToNextPrize ==
    /\ Handled("advanceToNextPrize", 0, currentIndex < Len(prizeQueue))
    /\ notified' = 0
    /\ currentIndex' = advanceToNextPrize(prizeQueue, currentIndex)
    /\ UNCHANGED <<appVars, pmOriginalPrizes, prizeQueue, winners, smVars, dmVars>>

\* PrizeManager.undoLastPrize(), called on the manager as it is.
UndoLastPrize ==
    /\ Handled("undoLastPrize", 0, currentIndex > 0)
    /\ notified' = 0
    /\ currentIndex' = undoLastPrize(currentIndex)
    /\ UNCHANGED <<appVars, pmOriginalPrizes, prizeQueue, winners, smVars, dmVars>>

\* PrizeManager.getCurrentPrize(): nothing written; arg records the entry
\* returned (NoPrize for null).
GetCurrentPrize ==
    /\ Handled("getCurrentPrize", getCurrentPrize(prizeQueue, currentIndex),
           getCurrentPrize(prizeQueue, currentIndex) # NoPrize)
    /\ notified' = 0
    /\ UNCHANGED <<appVars, pmVars, winners, smVars, dmVars>>

\* A PrizeManager given a tier list and then stepped by its callers.
NextCursor ==
    \/ SetPrizes(originalPrizes)
    \/ AdvanceToNextPrize
    \/ UndoLastPrize
    \/ GetCurrentPrize

SpecCursor == InitPM /\ [][NextCursor]_vars

\* C36: PrizeManager cursor steps are saturating: for every cursor c in
\* [0, queue length], advanceToNextPrize sets the cursor to
\* min(c + 1, queue length) and undoLastPrize sets it to max(c - 1, 0);
\* getCurrentPrize returns the entry at the cursor, or none exactly when the
\* cursor is at or beyond the queue length.
C36_CursorSaturates ==
    /\ [] ( /\ currentIndex \in 0..Len(prizeQueue)
            /\ lastCall.op = "getCurrentPrize"
                => /\ (lastCall.arg = NoPrize) <=> (currentIndex >= Len(prizeQueue))
                   /\ currentIndex < Len(prizeQueue)
                        => lastCall.arg = prizeQueue[currentIndex + 1] )
    /\ [][ /\ AdvanceToNextPrize
              => currentIndex' = Min(currentIndex + 1, Len(prizeQueue))
           /\ UndoLastPrize
              => currentIndex' = Max(currentIndex - 1, 0) ]_vars

\* advanceToNextPrize has just been called with the cursor at the end of a
\* non-empty queue, and left it there.
C36_Witness ==
    /\ lastCall.op = "advanceToNextPrize" /\ ~lastCall.done
    /\ prizeQueue # <<>>
    /\ currentIndex = Len(prizeQueue)

=============================================================================
